---- MODULE Spec2Model ----
(***************************************************************************)
(* A model of the call-graph loader: the document model                    *)
(* (callgraph/model/callgraph.py), the validator                           *)
(* (callgraph/validate/validator.py), the storage gateway                  *)
(* (callgraph/loader/db.py over ladybugdb.py, which wraps sqlite3 with the *)
(* schema of callgraph/schema/ddl.py), the writer                          *)
(* (callgraph/loader/writer.py), the query layer (callgraph/queries/api.py)*)
(* and the load-json command (callgraph/cli.py).                           *)
(***************************************************************************)
EXTENDS Integers, Sequences, FiniteSets, TLC

VARIABLES
    disk,   \* the committed content of the database file
    conn,   \* the content seen through the connection (with uncommitted writes)
    plan,   \* the calls a scripted client makes, in order, with their arguments
    pc,     \* how many calls of the plan were made
    trail,  \* the committed content after each call of the plan
    last    \* the last operation: its name, how it ended, the root it was given
            \* and the one it resolved

vars == <<disk, conn, plan, pc, trail, last>>

\* Python None and SQL NULL.
NULL == "NULL"

(***************************************************************************)
(* The universe the inputs are drawn from.                                 *)
(***************************************************************************)
\* Function ids, and the names a function of each id may carry: two
\* functions may share a name, and a name may be another function's id.
FnIds == {"f1", "f2"}
FnNames(id) == IF id = "f1" THEN {"main"} ELSE {"main", "f1"}
\* Callsite ids, in the order a numbered call list uses them.
CsIdSeq == <<"c1", "c2", "c3">>
\* The strings given as root: a name, a string that is an id and may be
\* another function's name, and a string that matches nothing.
RootArgs == {"main", "f1", "zz"}
\* The longest function list, call list and explicit edge list of a
\* document or graph.
MaxFuncs == 2
MaxCalls == 2
MaxEdges == 1

SeqsUpTo(S, n) == UNION {[1..k -> S] : k \in 0..n}

Range(s) == {s[i] : i \in DOMAIN s}

(***************************************************************************)
(* Document model: callgraph/model/callgraph.py                            *)
(***************************************************************************)
Function(id, name) == [id |-> id, name |-> name]
\* None (NULL) in the integer field line; a line is at least 1, and SQLite
\* orders NULL before every number.
NoLine == 0
CallSiteAt(id, caller, callee, file, line) ==
    [id |-> id, caller |-> caller, callee |-> callee, file |-> file, line |-> line]
\* A callsite whose optional file and line are left out.
CallSite(id, caller, callee) == CallSiteAt(id, caller, callee, NULL, NoLine)
Edge(caller, callee, callsite_id) ==
    [caller |-> caller, callee |-> callee, callsite_id |-> callsite_id]
CallGraph(functions, callsites, edges) ==
    [functions |-> functions, callsites |-> callsites, edges |-> edges]

\* The top-level keys a document may carry its call list under.
CallKeys == {"callsites", "callSites", "calls"}

\* CallGraph.from_dict: data.get("callsites", data.get("callSites", []));
\* the edges are the listed ones when the list is non-empty, else one per
\* callsite.
FromDict(d) ==
    LET callsites == IF d.key \in {"callsites", "callSites"} THEN d.calls ELSE <<>>
        edges == IF d.edges # <<>>
                 THEN d.edges
                 ELSE [i \in DOMAIN callsites |->
                          Edge(callsites[i].caller, callsites[i].callee, callsites[i].id)]
    IN CallGraph(d.functions, callsites, edges)

\* A parsed JSON object: the set of its keys, and the value of each key the
\* code reads (of no meaning for a key the object does not have).
\* dict.get(key, default)
Get(obj, key, default) == IF key \in obj.keys THEN obj[key] ELSE default

\* str.strip() on the strings of the universe: the padded id loses its
\* blanks, a blank string becomes empty.
Strip(v) == CASE v = " f1 " -> "f1" [] v = " " -> "" [] OTHER -> v

\* The validator without the test of the stripped value.
NotEmptyRaisesUnstripped(v) == v = NULL \/ v = ""

\* A required str field with the validator not_empty: None is refused by
\* the type, `not v or not v.strip()` raises ValueError.
NotEmptyRaises(v) == v = NULL \/ v = "" \/ Strip(v) = ""

\* The line of a callsite object: an integer, or none (no key, or null).
LineGiven(n) == [given |-> TRUE, value |-> n]
LineNone == [given |-> FALSE, value |-> 0]

\* CallSite.valid_line: `v is not None and v < 1` raises ValueError.
ValidLineRaises(line) == line.given /\ line.value < 1

\* What a constructor gives: the record, or a field error.
Built(value) == [raised |-> FALSE, value |-> value]
FieldError == [raised |-> TRUE, value |-> NULL]

\* Function(**f): id and name through not_empty, which returns v.strip().
NewFunction(f) ==
    LET id == Get(f, "id", NULL)
        name == Get(f, "name", NULL)
    IN IF NotEmptyRaises(id) \/ NotEmptyRaises(name) THEN FieldError
       ELSE Built(Function(Strip(id), Strip(name)))

\* CallSite(**normalized) on the normalised record of from_dict.
NewCallSite(cs) ==
    LET id == Get(cs, "id", NULL)
        caller == Get(cs, "caller", Get(cs, "caller_id", NULL))
        callee == Get(cs, "callee", Get(cs, "callee_id", NULL))
    IN IF \/ NotEmptyRaises(id) \/ NotEmptyRaises(caller) \/ NotEmptyRaises(callee)
          \/ ValidLineRaises(cs.line)
       THEN FieldError
       ELSE Built(CallSiteAt(Strip(id), Strip(caller), Strip(callee), NULL,
                             IF cs.line.given THEN cs.line.value ELSE NoLine))

\* Edge(**normalized): caller and callee through not_empty; callsite_id is
\* an Optional[str] without a validator and is kept as given.
NewEdge(e) ==
    LET caller == Get(e, "caller", Get(e, "caller_id", NULL))
        callee == Get(e, "callee", Get(e, "callee_id", NULL))
    IN IF NotEmptyRaises(caller) \/ NotEmptyRaises(callee) THEN FieldError
       ELSE Built(Edge(Strip(caller), Strip(callee), Get(e, "callsite_id", NULL)))

\* Edges derived without the callsite's id.
UnlinkedEdges(callsites) ==
    [i \in DOMAIN callsites |-> Edge(callsites[i].caller, callsites[i].callee, NULL)]

\* edges = [Edge(caller=cs.caller, callee=cs.callee, callsite_id=cs.id)
\*          for cs in callsites]
DerivedEdges(callsites) ==
    [i \in DOMAIN callsites |->
        Edge(callsites[i].caller, callsites[i].callee, callsites[i].id)]

\* CallGraph.from_dict on a parsed document: the lists read from the
\* top-level keys, each record constructed in order (the first field error
\* propagates), the edges taken from a non-empty edge list or derived.
CallGraphFromDict(data) ==
    LET functions_data == Get(data, "functions", <<>>)
        callsites_data == Get(data, "callsites", Get(data, "callSites", <<>>))
        edges_data == Get(data, "edges", <<>>)
        functions == [i \in DOMAIN functions_data |-> NewFunction(functions_data[i])]
        callsites == [i \in DOMAIN callsites_data |-> NewCallSite(callsites_data[i])]
        listed == [i \in DOMAIN edges_data |-> NewEdge(edges_data[i])]
        made == [i \in DOMAIN callsites |-> callsites[i].value]
    IN IF \/ \E i \in DOMAIN functions : functions[i].raised
          \/ \E i \in DOMAIN callsites : callsites[i].raised
          \/ \E i \in DOMAIN listed : listed[i].raised
       THEN FieldError
       ELSE Built(CallGraph([i \in DOMAIN functions |-> functions[i].value],
                            made,
                            IF edges_data # <<>>
                            THEN [i \in DOMAIN listed |-> listed[i].value]
                            ELSE DerivedEdges(made)))

(***************************************************************************)
(* Validator: callgraph/validate/validator.py                              *)
(***************************************************************************)
\* A scan that compares each id with the one just before it only.
RECURSIVE AdjacentDuplicatesUpTo(_, _)
AdjacentDuplicatesUpTo(ids, k) ==
    IF k = 0 THEN <<>>
    ELSE LET before == AdjacentDuplicatesUpTo(ids, k - 1)
         IN IF k > 1 /\ ids[k - 1] = ids[k]
            THEN Append(before, ids[k])
            ELSE before

\* The ids appended to a duplicate list: ids[i] for each i whose id was
\* already seen at a smaller index, in order.
RECURSIVE DuplicatesUpTo(_, _)
DuplicatesUpTo(ids, k) ==
    IF k = 0 THEN <<>>
    ELSE LET before == DuplicatesUpTo(ids, k - 1)
         IN IF \E j \in 1..(k - 1) : ids[j] = ids[k]
            THEN Append(before, ids[k])
            ELSE before

Duplicates(ids) == DuplicatesUpTo(ids, Len(ids))

\* A check of the caller alone, in place of caller and callee.
CallerViolations(cs, function_ids) ==
    IF cs.caller \notin function_ids THEN <<<<cs.id, "caller", cs.caller>>>> ELSE <<>>

\* The violations one callsite adds.
CallsiteViolations(cs, function_ids) ==
    (IF cs.caller \notin function_ids THEN <<<<cs.id, "caller", cs.caller>>>> ELSE <<>>)
    \o (IF cs.callee \notin function_ids THEN <<<<cs.id, "callee", cs.callee>>>> ELSE <<>>)

RECURSIVE InvalidCallsiteRefs(_, _, _)
InvalidCallsiteRefs(callsites, function_ids, k) ==
    IF k = 0 THEN <<>>
    ELSE InvalidCallsiteRefs(callsites, function_ids, k - 1)
         \o CallsiteViolations(callsites[k], function_ids)

\* Python truth of an Optional[str]: None and the empty string are false.
Truthy(v) == v \notin {NULL, ""}

\* Only the first violation of an edge, in place of all of them.
FirstEdgeViolation(i, e, function_ids, callsite_ids) ==
    IF e.caller \notin function_ids THEN <<<<i, "caller", e.caller>>>>
    ELSE IF e.callee \notin function_ids THEN <<<<i, "callee", e.callee>>>>
    ELSE IF Truthy(e.callsite_id) /\ e.callsite_id \notin callsite_ids
    THEN <<<<i, "callsite", e.callsite_id>>>>
    ELSE <<>>

\* The violations edge number i adds (enumerate counts from 0); the
\* callsite_id is looked up only when it is true (`edge.callsite_id and ...`).
EdgeViolations(i, e, function_ids, callsite_ids) ==
    (IF e.caller \notin function_ids THEN <<<<i, "caller", e.caller>>>> ELSE <<>>)
    \o (IF e.callee \notin function_ids THEN <<<<i, "callee", e.callee>>>> ELSE <<>>)
    \o (IF Truthy(e.callsite_id) /\ e.callsite_id \notin callsite_ids
        THEN <<<<i, "callsite", e.callsite_id>>>> ELSE <<>>)

RECURSIVE InvalidEdgeRefs(_, _, _, _)
InvalidEdgeRefs(edges, function_ids, callsite_ids, k) ==
    IF k = 0 THEN <<>>
    ELSE InvalidEdgeRefs(edges, function_ids, callsite_ids, k - 1)
         \o EdgeViolations(k - 1, edges[k], function_ids, callsite_ids)

Valid == [ok |-> TRUE, error |-> "none", items |-> <<>>]
ValidationError(kind, items) == [ok |-> FALSE, error |-> kind, items |-> items]

\* validate_callgraph: the verdict, and what the raised error lists.
ValidateCallgraph(graph) ==
    LET function_ids == {graph.functions[i].id : i \in DOMAIN graph.functions}
        duplicate_functions ==
            Duplicates([i \in DOMAIN graph.functions |-> graph.functions[i].id])
        callsite_ids == {graph.callsites[i].id : i \in DOMAIN graph.callsites}
        duplicate_callsites ==
            Duplicates([i \in DOMAIN graph.callsites |-> graph.callsites[i].id])
        invalid_callsite_refs ==
            InvalidCallsiteRefs(graph.callsites, function_ids, Len(graph.callsites))
        invalid_edge_refs ==
            InvalidEdgeRefs(graph.edges, function_ids, callsite_ids, Len(graph.edges))
    IN IF graph.functions = <<>> THEN ValidationError("no_functions", <<>>)
       ELSE IF duplicate_functions # <<>>
       THEN ValidationError("duplicate_functions", duplicate_functions)
       ELSE IF duplicate_callsites # <<>>
       THEN ValidationError("duplicate_callsites", duplicate_callsites)
       ELSE IF invalid_callsite_refs # <<>>
       THEN ValidationError("invalid_callsite_refs", invalid_callsite_refs)
       ELSE IF invalid_edge_refs # <<>>
       THEN ValidationError("invalid_edge_refs", invalid_edge_refs)
       ELSE Valid

(***************************************************************************)
(* Storage engine: ladybugdb.py (sqlite3) with callgraph/schema/ddl.py     *)
(***************************************************************************)
\* A database: whether the tables exist, and the rows of each table in
\* rowid order.
FreshDb == [schema |-> FALSE, functions |-> <<>>, callsites |-> <<>>, edges |-> <<>>]

\* DB_SCHEMA run by DB.init_schema: CREATE TABLE IF NOT EXISTS keeps the rows.
InitSchema(db) == [db EXCEPT !.schema = TRUE]

\* NULL in the INTEGER column depth.
NoDepth == -1

\* The columns of edges that are NOT NULL if depth were left nullable.
EdgeNotNullButDepth == {"caller", "callee"}

\* The columns of edges declared NOT NULL; depth has no DEFAULT.
EdgeNotNull == {"caller", "callee", "depth"}

\* NULL in a column of edges.
NullOf(column) == IF column = "depth" THEN NoDepth ELSE NULL

\* The row an INSERT INTO edges (caller_function_id, callee_function_id,
\* callsite_id) builds: id from AUTOINCREMENT, depth left NULL.
EdgeRow(rows, e) ==
    [id |-> Len(rows) + 1, caller |-> e.caller, callee |-> e.callee,
     callsite_id |-> e.callsite_id, depth |-> NoDepth]

\* A plain INSERT in place of the upsert: the row is added whatever its id.
AppendRow(rows, row) == Append(rows, row)

\* ON CONFLICT(id) DO NOTHING in place of DO UPDATE: the old row is kept.
InsertOrIgnoreById(rows, row) ==
    IF \E i \in DOMAIN rows : rows[i].id = row.id THEN rows ELSE Append(rows, row)

\* INSERT ... ON CONFLICT(id) DO UPDATE SET ...: the row with that primary
\* key is overwritten where it stands, else the row is appended.
UpsertById(rows, row) ==
    IF \E i \in DOMAIN rows : rows[i].id = row.id
    THEN [i \in DOMAIN rows |-> IF rows[i].id = row.id THEN row ELSE rows[i]]
    ELSE Append(rows, row)

\* INSERT OR IGNORE INTO edges: the only key of edges is the AUTOINCREMENT
\* id, so no (caller, callee) pair conflicts; a row that violates NOT NULL
\* is skipped.
InsertOrIgnoreEdge(rows, e) ==
    LET row == EdgeRow(rows, e)
    IN IF \E c \in EdgeNotNull : row[c] = NullOf(c) THEN rows ELSE Append(rows, row)

\* UPDATE edges SET depth = ? WHERE caller_function_id = ? AND
\* callee_function_id = ?   with u = <<depth, caller, callee>>.
UpdateDepth(rows, u) ==
    [i \in DOMAIN rows |->
        IF rows[i].caller = u[2] /\ rows[i].callee = u[3]
        THEN [rows[i] EXCEPT !.depth = u[1]]
        ELSE rows[i]]

\* Connection.execute of one write statement of the writer.
ConnExecute(db, query, params) ==
    CASE query = "upsert_function" ->
            [db EXCEPT !.functions = UpsertById(@, params)]
      [] query = "upsert_callsite" ->
            [db EXCEPT !.callsites = UpsertById(@, params)]
      [] query = "insert_edge" ->
            [db EXCEPT !.edges = InsertOrIgnoreEdge(@, params)]
      [] query = "update_depth" ->
            [db EXCEPT !.edges = UpdateDepth(@, params)]

RECURSIVE ExecuteFirst(_, _, _, _)
ExecuteFirst(db, query, params_list, k) ==
    IF k = 0 THEN db
    ELSE ConnExecute(ExecuteFirst(db, query, params_list, k - 1), query, params_list[k])

(***************************************************************************)
(* Storage gateway: callgraph/loader/db.py                                 *)
(***************************************************************************)
\* A call in progress: the connection's view, the committed content, whether
\* an exception is propagating, the root the depth computation resolved, and
\* the connects, commits, rollbacks and closes made so far.
Call(c, d) == [conn |-> c, disk |-> d, raised |-> FALSE, root_id |-> NULL, log |-> <<>>]

\* A storage fault: the statement number `at` of step `step` raises.
NoFault == [step |-> "none", at |-> 0]
FaultSteps == {"functions", "callsites", "edges"}

\* An except clause that re-raises without calling rollback.
SkipRollback(s) == s

\* DB.commit and DB.rollback.
Commit(s) == [s EXCEPT !.disk = s.conn, !.log = Append(@, "commit")]
Rollback(s) == [s EXCEPT !.conn = s.disk, !.log = Append(@, "rollback")]

\* DB(db_path): a connection to the file.
Connect(d) == [Call(d, d) EXCEPT !.log = <<"connect">>]

\* DB.init_schema on a call in progress: the statements, then a commit.
InitSchemaCall(s) == Commit([s EXCEPT !.conn = InitSchema(@)])

\* DB.close, reached through DB.__exit__: what was not committed is lost.
Close(s) == [s EXCEPT !.conn = s.disk, !.log = Append(@, "close")]

\* DB.executemany: the statements run one after the other, then a commit; a
\* statement that raises (a missing table, a storage fault) leaves the
\* earlier ones uncommitted and the exception propagates.
ExecuteMany(s, query, params_list, faultAt) ==
    LET n == Len(params_list)
        stop == IF ~s.conn.schema THEN 1 ELSE faultAt
    IN IF stop \in 1..n
       THEN [s EXCEPT !.conn = ExecuteFirst(s.conn, query, params_list, stop - 1),
                      !.raised = TRUE]
       ELSE Commit([s EXCEPT !.conn = ExecuteFirst(s.conn, query, params_list, n)])

\* DB.execute returns the records as a list of dictionaries (and an empty
\* list when the statement raised): not a cursor, so it has no fetchone.
DbExecute(rows, failed) == [cursor |-> FALSE, rows |-> IF failed THEN <<>> ELSE rows]

(***************************************************************************)
(* Writer: callgraph/loader/writer.py                                      *)
(***************************************************************************)
FaultAt(fault, step) == IF fault.step = step THEN fault.at ELSE 0

\* A load that leaves the functions out.
SkipFunctions(s, functions, fault) == s

\* Writer._insert_functions
InsertFunctions(s, functions, fault) ==
    ExecuteMany(s, "upsert_function",
                [i \in DOMAIN functions |-> [id |-> functions[i].id, name |-> functions[i].name]],
                FaultAt(fault, "functions"))

\* Writer._insert_callsites: nothing is run for an empty list.
InsertCallsites(s, callsites, fault) ==
    IF callsites = <<>> THEN s
    ELSE ExecuteMany(s, "upsert_callsite",
                     [i \in DOMAIN callsites |->
                        CallSiteAt(callsites[i].id, callsites[i].caller,
                                   callsites[i].callee, callsites[i].file,
                                   callsites[i].line)],
                     FaultAt(fault, "callsites"))

\* Writer._insert_edges: nothing is run for an empty list.
InsertEdges(s, edges, fault) ==
    IF edges = <<>> THEN s
    ELSE ExecuteMany(s, "insert_edge", edges, FaultAt(fault, "edges"))

\* SELECT id FROM functions WHERE id = ? OR name = ?   in rowid order.
SelectRoot(db, root_function) ==
    LET hit == SelectSeq(db.functions,
                         LAMBDA f : f.id = root_function \/ f.name = root_function)
    IN [i \in DOMAIN hit |-> hit[i].id]

\* SELECT caller_function_id, callee_function_id FROM edges   in rowid order.
SelectEdges(db) == [i \in DOMAIN db.edges |-> <<db.edges[i].caller, db.edges[i].callee>>]

\* adjacency[caller] = callee in place of append: the callee of the
\* caller's last row alone.
LastCallee(pairs, caller) ==
    LET mine == SelectSeq(pairs, LAMBDA p : p[1] = caller)
    IN IF mine = <<>> THEN <<>> ELSE <<mine[Len(mine)][2]>>

\* adjacency[caller]: the callees of the caller's rows, in row order.
Adjacency(pairs, caller) ==
    LET mine == SelectSeq(pairs, LAMBDA p : p[1] = caller)
    IN [i \in DOMAIN mine |-> mine[i][2]]

\* The keys of adjacency in insertion order: each caller at its first row.
RECURSIVE AdjacencyKeys(_, _)
AdjacencyKeys(pairs, k) ==
    IF k = 0 THEN <<>>
    ELSE LET before == AdjacencyKeys(pairs, k - 1)
         IN IF \E j \in 1..(k - 1) : pairs[j][1] = pairs[k][1]
            THEN before
            ELSE Append(before, pairs[k][1])

\* The inner loop without `if neighbor not in depths`: every neighbour gets
\* current_depth + 1 and joins the queue.
RECURSIVE DiscoverAgain(_, _, _, _)
DiscoverAgain(neighbors, depths, queue, current_depth) ==
    IF neighbors = <<>> THEN [depths |-> depths, queue |-> queue]
    ELSE DiscoverAgain(Tail(neighbors),
                       (Head(neighbors) :> current_depth + 1) @@ depths,
                       Append(queue, Head(neighbors)), current_depth)

\* The inner loop of the traversal: every neighbour without a depth gets
\* current_depth + 1 and joins the queue.
RECURSIVE Discover(_, _, _, _)
Discover(neighbors, depths, queue, current_depth) ==
    IF neighbors = <<>> THEN [depths |-> depths, queue |-> queue]
    ELSE IF Head(neighbors) \in DOMAIN depths
    THEN Discover(Tail(neighbors), depths, queue, current_depth)
    ELSE Discover(Tail(neighbors), depths @@ (Head(neighbors) :> current_depth + 1),
                  Append(queue, Head(neighbors)), current_depth)

\* while queue: current = queue.popleft(); ...
RECURSIVE Bfs(_, _, _)
Bfs(pairs, depths, queue) ==
    IF queue = <<>> THEN depths
    ELSE LET current == Head(queue)
             step == Discover(Adjacency(pairs, current), depths, Tail(queue), depths[current])
         IN Bfs(pairs, step.depths, step.queue)

\* The update list: for each caller with a depth, one (depth, caller, callee)
\* per callee with a depth.
RECURSIVE DepthUpdates(_, _, _, _)
DepthUpdates(pairs, keys, depths, k) ==
    IF k = 0 THEN <<>>
    ELSE LET caller == keys[k]
             callees == SelectSeq(Adjacency(pairs, caller), LAMBDA c : c \in DOMAIN depths)
         IN DepthUpdates(pairs, keys, depths, k - 1)
            \o (IF caller \in DOMAIN depths
                THEN [i \in DOMAIN callees |-> <<depths[caller], caller, callees[i]>>]
                ELSE <<>>)

\* The part of Writer._compute_depths after the root is resolved.
ComputeDepthsFrom(s, root_id) ==
    LET pairs == DbExecute(SelectEdges(s.conn), FALSE).rows
        depths == Bfs(pairs, (root_id :> 0), <<root_id>>)
        keys == AdjacencyKeys(pairs, Len(pairs))
        updates == DepthUpdates(pairs, keys, depths, Len(keys))
        t == [s EXCEPT !.root_id = root_id]
    IN IF updates = <<>> THEN t ELSE ExecuteMany(t, "update_depth", updates, 0)

\* Writer._compute_depths: cursor.fetchone() on what DB.execute returned
\* raises AttributeError when that is a list.
ComputeDepths(s, root_function) ==
    LET cursor == DbExecute(SelectRoot(s.conn, root_function), ~s.conn.schema)
    IN IF ~cursor.cursor THEN [s EXCEPT !.raised = TRUE]
       ELSE IF cursor.rows = <<>> THEN s
       ELSE ComputeDepthsFrom(s, cursor.rows[1])

\* Writer.load_callgraph: the four steps, each skipped once an exception
\* propagates; then commit, or rollback and re-raise.
LoadCallgraph(s, graph, root_function, fault) ==
    LET s1 == InsertFunctions(s, graph.functions, fault)
        s2 == IF s1.raised THEN s1 ELSE InsertCallsites(s1, graph.callsites, fault)
        s3 == IF s2.raised THEN s2 ELSE InsertEdges(s2, graph.edges, fault)
        s4 == IF s3.raised THEN s3 ELSE ComputeDepths(s3, root_function)
    IN IF s4.raised THEN Rollback(s4) ELSE Commit(s4)

(***************************************************************************)
(* Query layer: callgraph/queries/api.py                                   *)
(***************************************************************************)
\* The rows of the three-way join of get_callees: DISTINCT callee records
\* of the edges whose caller record has id or name equal to the argument.
CalleeRows(db, function) ==
    {f \in Range(db.functions) :
        \E e \in Range(db.edges), caller \in Range(db.functions) :
            /\ e.callee = f.id
            /\ e.caller = caller.id
            /\ (caller.id = function \/ caller.name = function)}

\* The strings of the universe in the order ORDER BY puts them.
Collation == <<"NULL", "a.c", "b.c", "c1", "c2", "c3", "f1", "f2", "main", "zz">>
Rank(str) == CHOOSE i \in DOMAIN Collation : Collation[i] = str

\* ORDER BY name (rows of one name in id order).
ByName(f, g) ==
    Rank(f.name) < Rank(g.name) \/ (f.name = g.name /\ Rank(f.id) < Rank(g.id))

RECURSIVE SetToSeq(_)
SetToSeq(S) == IF S = {} THEN <<>> ELSE LET x == CHOOSE y \in S : TRUE IN <<x>> \o SetToSeq(S \ {x})

\* get_callees
GetCallees(db, function) ==
    DbExecute(SortSeq(SetToSeq(CalleeRows(db, function)), ByName), ~db.schema).rows

\* The depths of depth_summary's groups: the non-NULL depths of edges.
AssignedDepths(db) == {e.depth : e \in {r \in Range(db.edges) : r.depth # NoDepth}}

\* One row of depth_summary.
DepthGroup(db, d) ==
    LET rows == {e \in Range(db.edges) : e.depth = d}
    IN [depth |-> d,
        function_count |-> Cardinality({e.caller : e \in rows}),
        edge_count |-> Cardinality(rows)]

\* depth_summary: GROUP BY depth ORDER BY depth.
DepthSummary(db) ==
    DbExecute(SortSeq(SetToSeq({DepthGroup(db, d) : d \in AssignedDepths(db)}),
                      LAMBDA g, h : g.depth < h.depth), ~db.schema).rows

\* list_functions: ORDER BY name.
ListFunctions(db) == DbExecute(SortSeq(db.functions, ByName), ~db.schema).rows

\* Callers matched by id alone, in place of id or name.
CallerRowsById(db, function) ==
    {f \in Range(db.functions) :
        \E e \in Range(db.edges), callee \in Range(db.functions) :
            /\ e.caller = f.id
            /\ e.callee = callee.id
            /\ callee.id = function}

\* The rows of the join of get_callers: DISTINCT caller records of the edges
\* whose callee record has id or name equal to the argument.
CallerRows(db, function) ==
    {f \in Range(db.functions) :
        \E e \in Range(db.edges), callee \in Range(db.functions) :
            /\ e.caller = f.id
            /\ e.callee = callee.id
            /\ (callee.id = function \/ callee.name = function)}

\* get_callers
GetCallers(db, function) ==
    DbExecute(SortSeq(SetToSeq(CallerRows(db, function)), ByName), ~db.schema).rows

\* The record of the function with an id, for a join ON ... = f.id (id is
\* the primary key of functions).
FunctionOf(db, id) == CHOOSE f \in Range(db.functions) : f.id = id
Joins(db, row) ==
    /\ \E f \in Range(db.functions) : f.id = row.caller
    /\ \E f \in Range(db.functions) : f.id = row.callee

\* edges_at_depth: one (caller_name, callee_name) per joined edge row of
\* that depth, ORDER BY caller.name, callee.name.
EdgesAtDepth(db, depth) ==
    LET rows == SelectSeq(db.edges, LAMBDA e : e.depth = depth /\ Joins(db, e))
        names == [i \in DOMAIN rows |->
                     <<FunctionOf(db, rows[i].caller).name, FunctionOf(db, rows[i].callee).name>>]
    IN DbExecute(SortSeq(names, LAMBDA p, q :
                     Rank(p[1]) < Rank(q[1]) \/ (p[1] = q[1] /\ Rank(p[2]) < Rank(q[2]))),
                 ~db.schema).rows

\* get_all_depths: SELECT DISTINCT depth ... ORDER BY depth.
GetAllDepths(db) ==
    DbExecute(SortSeq(SetToSeq(AssignedDepths(db)), LAMBDA d, e : d < e), ~db.schema).rows

\* The callsite query of function_detail: the callsites whose caller record
\* has id or name equal to the argument, ORDER BY cs.file, cs.line.
DetailCallsites(db, function) ==
    LET rows == SelectSeq(db.callsites,
                    LAMBDA cs : /\ Joins(db, cs)
                                /\ \/ FunctionOf(db, cs.caller).id = function
                                   \/ FunctionOf(db, cs.caller).name = function)
        records == [i \in DOMAIN rows |->
                       [id |-> rows[i].id,
                        caller_name |-> FunctionOf(db, rows[i].caller).name,
                        callee_name |-> FunctionOf(db, rows[i].callee).name,
                        file |-> rows[i].file, line |-> rows[i].line]]
    IN DbExecute(SortSeq(records, LAMBDA c, d :
                     Rank(c.file) < Rank(d.file) \/ (c.file = d.file /\ c.line < d.line)),
                 ~db.schema).rows

\* function_detail: None when the first query has no row, else the first
\* row with get_callers, get_callees and the callsite query of the argument.
FunctionDetail(db, function) ==
    LET results == DbExecute(SelectSeq(db.functions,
                                 LAMBDA f : f.id = function \/ f.name = function),
                             ~db.schema).rows
    IN IF results = <<>>
       THEN [none |-> TRUE]
       ELSE [none |-> FALSE,
             function |-> results[1],
             callers |-> GetCallers(db, function),
             callees |-> GetCallees(db, function),
             callsites |-> DetailCallsites(db, function)]

(***************************************************************************)
(* The inputs                                                              *)
(***************************************************************************)
FunctionRecs == {Function(i, n) : i \in FnIds, n \in (FnNames("f1") \cup FnNames("f2"))}
                   \cap UNION {{Function(i, n) : n \in FnNames(i)} : i \in FnIds}
FuncLists == SeqsUpTo(FunctionRecs, MaxFuncs)

\* The graphs handed to the writer: validated graphs whose callsites are
\* numbered in order and call another function, with the edges derived.
CallPairs == {p \in FnIds \X FnIds : p[1] # p[2]}
NumberedCalls(pairs) ==
    [i \in DOMAIN pairs |-> CallSite(CsIdSeq[i], pairs[i][1], pairs[i][2])]
Graphs ==
    {g \in {FromDict([functions |-> fs, key |-> "callsites",
                      calls |-> NumberedCalls(ps), edges |-> <<>>]) :
               fs \in FuncLists, ps \in SeqsUpTo(CallPairs, MaxCalls)} :
        ValidateCallgraph(g).ok}

\* The documents handed to load-json, valid or not: any function list, the
\* call list under any key, with any callsite ids, and explicit edges.
DocCsIds == {CsIdSeq[i] : i \in 1..MaxCalls}
Docs ==
    [functions : FuncLists,
     key : CallKeys,
     calls : SeqsUpTo({CallSite(c, a, b) : c \in DocCsIds, a \in FnIds, b \in FnIds}, MaxCalls),
     edges : SeqsUpTo({Edge(a, b, c) : a \in FnIds, b \in FnIds, c \in {NULL, "c1"}}, MaxEdges)]

\* settings.DEFAULT_ROOT_FUNCTION
\* The documents given to load-json between other operations: no function
\* or one, and no call.
FileDocs ==
    [functions : SeqsUpTo(FunctionRecs, 1), key : {"callsites"},
     calls : {<<>>}, edges : {<<>>}]

DefaultRoot == "main"

Faults(graph) ==
    {[step |-> "functions", at |-> k] : k \in DOMAIN graph.functions}
    \cup {[step |-> "callsites", at |-> k] : k \in DOMAIN graph.callsites}
    \cup {[step |-> "edges", at |-> k] : k \in DOMAIN graph.edges}

WriterCall(graph, root) == [op |-> "load_callgraph", graph |-> graph, root |-> root]
JsonCall(d, root) == [op |-> "load_json", doc |-> d, root |-> root]

(***************************************************************************)
(* The operations                                                          *)
(***************************************************************************)
Outcome(op, outcome, root, root_id) ==
    [op |-> op, outcome |-> outcome, root |-> root, root_id |-> root_id]

\* The outcome together with the gateway calls the operation made.
Logged(o, log) ==
    [op |-> o.op, outcome |-> o.outcome, root |-> o.root, root_id |-> o.root_id,
     log |-> log]

\* The init-db command: DB.init_schema on a new connection, then close.
InitDb ==
    LET s == Close(InitSchemaCall(Connect(disk)))
    IN /\ disk' = s.disk
       /\ conn' = s.conn
       /\ last' = Logged(Outcome("init_db", "returned", NULL, NULL), s.log)
       /\ UNCHANGED <<plan, pc, trail>>

\* Writer.load_callgraph on the open connection.
LoadCallgraphCall(graph, root, fault) ==
    LET s == LoadCallgraph(Call(conn, disk), graph, root, fault)
    IN /\ disk' = s.disk
       /\ conn' = s.conn
       /\ last' = Logged(Outcome("load_callgraph",
                                 IF s.raised THEN "raised" ELSE "returned",
                                 root, s.root_id), s.log)

\* The load-json command: validate_json_file, then with DB(...): init_schema
\* and Writer.load_callgraph; the connection is closed on the way out.
LoadJson(d, root) ==
    LET graph == FromDict(d)
        verdict == ValidateCallgraph(graph)
        opened == InitSchemaCall(Connect(disk))
        s == Close(LoadCallgraph(opened, graph, root, NoFault))
    IN IF ~verdict.ok
       THEN /\ last' = Logged(Outcome("load_json", verdict.error, root, NULL), <<>>)
            /\ UNCHANGED <<disk, conn>>
       ELSE /\ disk' = s.disk
            /\ conn' = s.conn
            /\ last' = Logged(Outcome("load_json",
                                      IF s.raised THEN "raised" ELSE "returned",
                                      root, s.root_id), s.log)

(***************************************************************************)
(* Spec: any sequence of init-db and load_callgraph calls, with and        *)
(* without storage faults, on one store.                                   *)
(***************************************************************************)
Init ==
    /\ disk = FreshDb
    /\ conn = FreshDb
    /\ plan = <<>>
    /\ pc = 0
    /\ trail = <<>>
    /\ last = Outcome("none", "returned", NULL, NULL)

Load ==
    \E graph \in Graphs, root \in RootArgs :
        /\ LoadCallgraphCall(graph, root, NoFault)
        /\ UNCHANGED <<plan, pc, trail>>

\* A load during which one statement of one step raises.
LoadWithFault ==
    \E graph \in Graphs :
        \E fault \in Faults(graph) :
            /\ LoadCallgraphCall(graph, DefaultRoot, fault)
            /\ UNCHANGED <<plan, pc, trail>>

\* The load-json command on the store.
LoadJsonFile ==
    \E d \in FileDocs :
        /\ LoadJson(d, DefaultRoot)
        /\ UNCHANGED <<plan, pc, trail>>

Next == InitDb \/ Load \/ LoadWithFault \/ LoadJsonFile

Spec == Init /\ [][Next]_vars

(***************************************************************************)
(* SpecReload: a client loads one graph and then another into an           *)
(* initialised empty store.                                                *)
(***************************************************************************)
InitReload ==
    /\ disk = InitSchema(FreshDb)
    /\ conn = InitSchema(FreshDb)
    /\ plan \in {<<WriterCall(g1, r1), WriterCall(g2, r2)>> :
                    g1 \in Graphs, g2 \in Graphs, r1 \in RootArgs, r2 \in RootArgs}
    /\ pc = 0
    /\ trail = <<>>
    /\ last = Outcome("init_db", "returned", NULL, NULL)

RunLoadCallgraph ==
    /\ pc < Len(plan)
    /\ plan[pc + 1].op = "load_callgraph"
    /\ LoadCallgraphCall(plan[pc + 1].graph, plan[pc + 1].root, NoFault)
    /\ pc' = pc + 1
    /\ trail' = Append(trail, disk')
    /\ UNCHANGED plan

NextReload == RunLoadCallgraph

SpecReload == InitReload /\ [][NextReload]_vars

(***************************************************************************)
(* SpecJson: the load-json command run on one document, on a new database  *)
(* file.                                                                   *)
(***************************************************************************)
InitJson ==
    /\ disk = FreshDb
    /\ conn = FreshDb
    /\ plan \in {<<JsonCall(d, DefaultRoot)>> : d \in Docs}
    /\ pc = 0
    /\ trail = <<>>
    /\ last = Outcome("none", "returned", NULL, NULL)

RunLoadJson ==
    /\ pc < Len(plan)
    /\ plan[pc + 1].op = "load_json"
    /\ LoadJson(plan[pc + 1].doc, plan[pc + 1].root)
    /\ pc' = pc + 1
    /\ trail' = Append(trail, disk')
    /\ UNCHANGED plan

NextJson == RunLoadJson

SpecJson == InitJson /\ [][NextJson]_vars

(***************************************************************************)
(* validate_callgraph on one graph object (the validate-json path): the    *)
(* graph is any CallGraph the document model admits, valid or not.         *)
(***************************************************************************)
\* Function lists one longer than the loaded ones, so that an id can occur
\* three times; calls from f1 to f2 under two ids; edges between any two
\* ids with no callsite_id, an empty one, or c1.
ValFuncLists == SeqsUpTo({Function(i, DefaultRoot) : i \in FnIds}, MaxFuncs + 1)
ValCalls == {CallSite(c, "f1", "f2") : c \in {CsIdSeq[1], CsIdSeq[2]}}
ValEdges == {Edge(a, b, c) : a \in FnIds, b \in FnIds, c \in {NULL, "", CsIdSeq[1]}}
ValGraphs ==
    {CallGraph(fs, cs, es) :
        fs \in ValFuncLists, cs \in SeqsUpTo(ValCalls, MaxCalls),
        es \in SeqsUpTo(ValEdges, MaxEdges)}

ValidateCall(graph) == [op |-> "validate_callgraph", graph |-> graph]

\* A loop that consumes the list it walks (while xs: xs.pop(0)).
Drained(list) == <<>>

\* `for x in xs:` and `enumerate(xs)` with a body that only reads x: the
\* list object after the loop.
Iterated(list) == list

\* The graph object after validate_callgraph: the loop over functions runs
\* unless the list is empty, the loop over callsites once the function ids
\* are unique, the loop over edges once the callsites passed; nothing else
\* touches the graph.
GraphAfterValidate(graph, verdict) ==
    CallGraph(IF verdict.error = "no_functions"
              THEN graph.functions ELSE Iterated(graph.functions),
              IF verdict.error \in {"no_functions", "duplicate_functions"}
              THEN graph.callsites ELSE Iterated(graph.callsites),
              IF verdict.error \in {"none", "invalid_edge_refs"}
              THEN Iterated(graph.edges) ELSE graph.edges)

\* validate_callgraph(graph): returns None, or raises ValidationError with
\* the list its message is built from.
RunValidateCallgraph ==
    /\ pc < Len(plan)
    /\ plan[pc + 1].op = "validate_callgraph"
    /\ LET verdict == ValidateCallgraph(plan[pc + 1].graph)
       IN /\ last' = [op |-> "validate_callgraph",
                      outcome |-> IF verdict.ok THEN "returned" ELSE "raised",
                      error |-> verdict.error,
                      items |-> verdict.items]
          /\ plan' = [plan EXCEPT ![pc + 1].graph = GraphAfterValidate(@, verdict)]
    /\ pc' = pc + 1
    /\ UNCHANGED <<disk, conn, trail>>

InitValidate ==
    /\ disk = FreshDb
    /\ conn = FreshDb
    /\ plan \in {<<ValidateCall(g)>> : g \in ValGraphs}
    /\ pc = 0
    /\ trail = <<>>
    /\ last = Outcome("none", "returned", NULL, NULL)

NextValidate == RunValidateCallgraph

SpecValidate == InitValidate /\ [][NextValidate]_vars

(***************************************************************************)
(* The query layer on a database file: one read of a store that conforms   *)
(* to the schema, or of a file whose tables were never created.            *)
(***************************************************************************)
\* The files and lines of persisted callsites.
Files == {"a.c", "b.c"}
Lines == {1, 2}
\* Function lists as the primary key leaves them: no id twice.
KeyedFuncLists ==
    {fs \in FuncLists : \A i, j \in DOMAIN fs : fs[i].id = fs[j].id => i = j}
\* Calls between the functions of a list (a function may call itself).
CallsAmong(fs) ==
    {CallSiteAt(NULL, a, b, f, l) :
        a \in {fs[i].id : i \in DOMAIN fs}, b \in {fs[i].id : i \in DOMAIN fs},
        f \in Files, l \in Lines}
\* The callsite rows of a call list, numbered in order, and the edge rows
\* derived from them; depth is NOT NULL: 0 on the edges that leave f1, 1 on
\* the others.
CallsiteRows(calls) == [i \in DOMAIN calls |-> [calls[i] EXCEPT !.id = CsIdSeq[i]]]
EdgeRows(calls) ==
    [i \in DOMAIN calls |->
        [id |-> i, caller |-> calls[i].caller, callee |-> calls[i].callee,
         callsite_id |-> CsIdSeq[i], depth |-> IF calls[i].caller = "f1" THEN 0 ELSE 1]]
\* A store: functions with their callsites, with the edge rows or (as the
\* writer leaves them) none.
Store(fs, calls, withEdges) ==
    [schema |-> TRUE, functions |-> fs, callsites |-> CallsiteRows(calls),
     edges |-> IF withEdges THEN EdgeRows(calls) ELSE <<>>]
\* The depths asked of edges_at_depth.
Depths == {0, 1}

\* What a read hands its caller: DB.execute returns in every case, so the
\* function returns; `failed` records that the storage engine raised.
Read(op, arg, db, result) ==
    [op |-> op, arg |-> arg, outcome |-> "returned", failed |-> ~db.schema,
     result |-> result]

Query(read) ==
    /\ pc = 0
    /\ pc' = 1
    /\ last' = read
    /\ UNCHANGED <<disk, conn, plan, trail>>

QueryListFunctions == Query(Read("list_functions", NULL, disk, ListFunctions(disk)))
QueryGetCallees ==
    \E function \in RootArgs :
        Query(Read("get_callees", function, disk, GetCallees(disk, function)))
QueryGetCallers ==
    \E function \in RootArgs :
        Query(Read("get_callers", function, disk, GetCallers(disk, function)))
QueryDepthSummary == Query(Read("depth_summary", NULL, disk, DepthSummary(disk)))
QueryEdgesAtDepth ==
    \E depth \in Depths :
        Query(Read("edges_at_depth", depth, disk, EdgesAtDepth(disk, depth)))
QueryFunctionDetail ==
    \E function \in RootArgs :
        Query(Read("function_detail", function, disk, FunctionDetail(disk, function)))
QueryGetAllDepths == Query(Read("get_all_depths", NULL, disk, GetAllDepths(disk)))

\* The file read is one without tables, or a store.
InitQuery ==
    /\ \/ disk = FreshDb
       \/ \E fs \in KeyedFuncLists :
             \E calls \in SeqsUpTo(CallsAmong(fs), MaxCalls), withEdges \in BOOLEAN :
                 disk = Store(fs, calls, withEdges)
    /\ conn = disk
    /\ plan = <<>>
    /\ pc = 0
    /\ trail = <<>>
    /\ last = Outcome("none", "returned", NULL, NULL)

NextQuery ==
    \/ QueryListFunctions
    \/ QueryGetCallees
    \/ QueryGetCallers
    \/ QueryDepthSummary
    \/ QueryEdgesAtDepth
    \/ QueryFunctionDetail
    \/ QueryGetAllDepths

SpecQuery == InitQuery /\ [][NextQuery]_vars

(***************************************************************************)
(* CallGraph.from_dict on one parsed document: records with well-formed,   *)
(* padded, blank, empty and missing fields, under either spelling of the   *)
(* field names, the call list under each top-level key.                    *)
(***************************************************************************)
RawFunction(id, name) == [keys |-> {"id", "name"}, id |-> id, name |-> name]
\* A callsite object; with alias its caller and callee are spelled
\* caller_id and callee_id.
RawCall(id, caller, callee, line, alias) ==
    [keys |-> {"id", "line"} \cup (IF alias THEN {"caller_id", "callee_id"}
                                            ELSE {"caller", "callee"}),
     id |-> id,
     caller |-> IF alias THEN NULL ELSE caller,
     caller_id |-> IF alias THEN caller ELSE NULL,
     callee |-> IF alias THEN NULL ELSE callee,
     callee_id |-> IF alias THEN callee ELSE NULL,
     line |-> line]
RawEdge(caller, callee, callsite_id, alias) ==
    [keys |-> {"callsite_id"} \cup (IF alias THEN {"caller_id", "callee_id"}
                                             ELSE {"caller", "callee"}),
     caller |-> IF alias THEN NULL ELSE caller,
     caller_id |-> IF alias THEN caller ELSE NULL,
     callee |-> IF alias THEN NULL ELSE callee,
     callee_id |-> IF alias THEN callee ELSE NULL,
     callsite_id |-> callsite_id]

IngestFunctionLists ==
    {<<>>, <<RawFunction("f1", "main")>>, <<RawFunction(" f1 ", "main")>>,
     <<RawFunction("f2", " ")>>,
     <<[RawFunction("", "main") EXCEPT !.keys = {"name"}]>>}
IngestCalls ==
    {RawCall("c1", "f1", "f2", LineNone, FALSE),
     RawCall("c1", "f1", "f2", LineNone, TRUE),
     RawCall("c2", "f1", "f2", LineNone, FALSE),
     RawCall("c1", " f1 ", "f2", LineGiven(1), FALSE),
     RawCall("c1", " ", "f2", LineNone, FALSE),
     RawCall("c1", "f1", "", LineNone, TRUE),
     RawCall(" ", "f1", "f2", LineNone, FALSE),
     RawCall("c1", "f1", "f2", LineGiven(0), FALSE),
     [RawCall("c1", "f1", "f2", LineNone, FALSE) EXCEPT !.keys = @ \ {"id"}],
     [RawCall("c1", "f1", "f2", LineNone, FALSE) EXCEPT
         !.keys = @ \cup {"caller_id", "callee_id"},
         !.caller_id = "f2", !.callee_id = "f1"]}
IngestEdges ==
    {RawEdge("f1", "f2", "c1", FALSE),
     [RawEdge("f2", "f1", NULL, TRUE) EXCEPT !.keys = @ \ {"callsite_id"}],
     RawEdge("f1", " ", "c1", FALSE),
     RawEdge("", "f2", "c2", TRUE)}

\* A document: the function list, the call list under one top-level key,
\* and the edge list, whose key an empty list may leave out.
Document(functions, key, calls, edges, edgesKey) ==
    [keys |-> {"functions", key} \cup (IF edgesKey THEN {"edges"} ELSE {}),
     functions |-> functions,
     callsites |-> IF key = "callsites" THEN calls ELSE <<>>,
     callSites |-> IF key = "callSites" THEN calls ELSE <<>>,
     calls |-> IF key = "calls" THEN calls ELSE <<>>,
     edges |-> edges]

FromDictCall(data) == [op |-> "from_dict", data |-> data]

\* CallGraph.from_dict(data): returns the graph, or a field error is raised.
RunFromDict ==
    /\ pc < Len(plan)
    /\ plan[pc + 1].op = "from_dict"
    /\ LET made == CallGraphFromDict(plan[pc + 1].data)
       IN last' = [op |-> "from_dict",
                   outcome |-> IF made.raised THEN "raised" ELSE "returned",
                   result |-> made]
    /\ pc' = pc + 1
    /\ UNCHANGED <<disk, conn, plan, trail>>

InitIngest ==
    /\ disk = FreshDb
    /\ conn = FreshDb
    /\ \E functions \in IngestFunctionLists, key \in CallKeys,
          calls \in SeqsUpTo(IngestCalls, MaxCalls),
          edges \in SeqsUpTo(IngestEdges, MaxEdges), edgesKey \in BOOLEAN :
          /\ edges # <<>> => edgesKey
          /\ plan = <<FromDictCall(Document(functions, key, calls, edges, edgesKey))>>
    /\ pc = 0
    /\ trail = <<>>
    /\ last = Outcome("none", "returned", NULL, NULL)

NextIngest == RunFromDict

SpecIngest == InitIngest /\ [][NextIngest]_vars

(***************************************************************************)
(* The traversal of Writer._compute_depths, one pass of its while loop at  *)
(* a time, over a store whose edge rows form any small graph (cycles,      *)
(* self-loops and repeated rows included), from a resolved root; then the  *)
(* update of the depths.                                                   *)
(***************************************************************************)
BfsIds == {"f1", "f2", "f3"}
BfsPairs ==
    {<<"f1", "f1">>, <<"f1", "f2">>, <<"f2", "f1">>,
     <<"f2", "f3">>, <<"f1", "f3">>, <<"f3", "f2">>}
\* The edge rows of a list of pairs, as inserted: no depth yet.
RowsOfPairs(pairs) ==
    [i \in DOMAIN pairs |->
        [id |-> i, caller |-> pairs[i][1], callee |-> pairs[i][2],
         callsite_id |-> NULL, depth |-> NoDepth]]
EdgeStore(pairs) ==
    [schema |-> TRUE,
     functions |-> SetToSeq({Function(i, i) : i \in BfsIds}),
     callsites |-> <<>>, edges |-> RowsOfPairs(pairs)]

DepthsCall(root_id) == [op |-> "compute_depths", root_id |-> root_id]

\* depths = {root_id: 0}; queue = deque([root_id])
Traversal(depths, queue, phase) ==
    [op |-> "compute_depths", depths |-> depths, queue |-> queue, phase |-> phase]

\* One pass of `while queue:`.
BfsStep ==
    /\ last.phase = "bfs"
    /\ last.queue # <<>>
    /\ LET current == Head(last.queue)
           rest == Tail(last.queue)
           step == Discover(Adjacency(SelectEdges(conn), current), last.depths,
                            rest, last.depths[current])
       IN /\ last' = Traversal(step.depths, step.queue, "bfs")
          /\ trail' = trail \o SubSeq(step.queue, Len(rest) + 1, Len(step.queue))
    /\ pc' = pc + 1
    /\ UNCHANGED <<disk, conn, plan>>

\* After the loop: the update list is built and run (executemany commits).
UpdateEdgeDepths ==
    /\ last.phase = "bfs"
    /\ last.queue = <<>>
    /\ LET pairs == SelectEdges(conn)
           keys == AdjacencyKeys(pairs, Len(pairs))
           updates == DepthUpdates(pairs, keys, last.depths, Len(keys))
           s == IF updates = <<>> THEN Call(conn, disk)
                ELSE ExecuteMany(Call(conn, disk), "update_depth", updates, 0)
       IN /\ disk' = s.disk
          /\ conn' = s.conn
    /\ last' = Traversal(last.depths, last.queue, "done")
    /\ UNCHANGED <<plan, pc, trail>>

InitBfs ==
    /\ \E pairs \in SeqsUpTo(BfsPairs, MaxCalls + 1) : disk = EdgeStore(pairs)
    /\ conn = disk
    /\ \E root_id \in BfsIds :
          /\ plan = <<DepthsCall(root_id)>>
          /\ trail = <<root_id>>
          /\ last = Traversal((root_id :> 0), <<root_id>>, "bfs")
    /\ pc = 0

NextBfs == BfsStep \/ UpdateEdgeDepths

SpecBfs == InitBfs /\ [][NextBfs]_vars

\* The loop is sequential code: a pass that can run does run.
SpecBfsLive == SpecBfs /\ WF_vars(BfsStep)

(***************************************************************************)
(* What the claims are stated with: the functions a root string names, and *)
(* shortest paths over a set of <<caller, callee>> pairs.                  *)
(***************************************************************************)
PairsOf(edges) == {<<edges[i].caller, edges[i].callee>> : i \in DOMAIN edges}

\* The persisted functions whose id or name is the string.
Matching(db, str) == {f \in Range(db.functions) : f.id = str \/ f.name = str}

\* The ids within k edges of the root.
RECURSIVE Within(_, _, _)
Within(E, root_id, k) ==
    IF k = 0 THEN {root_id}
    ELSE LET near == Within(E, root_id, k - 1)
         IN near \cup {p[2] : p \in {q \in E : q[1] \in near}}

Reachable(E, root_id) == Within(E, root_id, Cardinality(E))

\* The least number of edges on a path from the root to a reachable id.
Distance(E, root_id, id) ==
    CHOOSE k \in 0..Cardinality(E) :
        /\ id \in Within(E, root_id, k)
        /\ k = 0 \/ id \notin Within(E, root_id, k - 1)

\* The rows of edges that hold a pair.
RowsOf(db, p) == {r \in Range(db.edges) : r.caller = p[1] /\ r.callee = p[2]}

\* In SpecReload: the committed content before the last call of the plan,
\* the graph and root of that call, and the pairs of all graphs loaded.
Before == IF pc <= 1 THEN InitSchema(FreshDb) ELSE trail[pc - 1]
Loaded == plan[pc].graph
Root == plan[pc].root
LoadedPairs == UNION {PairsOf(plan[i].graph.edges) : i \in 1..pc}
\* The root string names exactly one persisted function.
RootIsOne == Cardinality(Matching(disk, Root)) = 1
TheRoot == (CHOOSE f \in Matching(disk, Root) : TRUE).id

\* A graph is part of another.
SubGraph(g, h) ==
    /\ Range(g.functions) \subseteq Range(h.functions)
    /\ Range(g.callsites) \subseteq Range(h.callsites)
    /\ Range(g.edges) \subseteq Range(h.edges)

(***************************************************************************)
(* The claims                                                              *)
(***************************************************************************)
\* C1 (Spec): on every initialised store the machine reaches, for every
\* validated graph and every root, load_callgraph run twice in a row leaves
\* the committed functions, callsites and edges (rows and depths) exactly as
\* running it once does.
C1_IdempotentLoad ==
    disk.schema =>
        \A graph \in Graphs, root \in RootArgs :
            LET once == LoadCallgraph(Call(conn, disk), graph, root, NoFault)
                twice == LoadCallgraph(Call(once.conn, once.disk), graph, root, NoFault)
            IN twice.disk = once.disk

\* A load has left functions and callsites in an initialised store.
C1_Witness ==
    /\ last.op = "load_callgraph"
    /\ disk.schema
    /\ disk.functions # <<>>
    /\ disk.callsites # <<>>

\* C2 (Spec): a load_callgraph call that raises leaves the committed
\* functions, callsites and edges exactly as they were before the call.
C2_AtomicLoad ==
    [][(last'.op = "load_callgraph" /\ last'.outcome = "raised") => disk' = disk]_vars

\* C3 (Spec): after any sequence of loads the edges table holds at most one
\* row for each (caller, callee) pair.
C3_OneRowPerPair ==
    \A i, j \in DOMAIN disk.edges :
        (disk.edges[i].caller = disk.edges[j].caller
            /\ disk.edges[i].callee = disk.edges[j].callee) => i = j

\* Loads have handed the same pair to the edge insert twice: two persisted
\* callsites, each of which had its edge derived, share caller and callee.
C3_Witness ==
    /\ last.op = "load_callgraph"
    /\ \E i, j \in DOMAIN disk.callsites :
          /\ i # j
          /\ disk.callsites[i].caller = disk.callsites[j].caller
          /\ disk.callsites[i].callee = disk.callsites[j].callee

\* C4 (SpecReload): after a load whose root names one persisted function,
\* every edge of the graphs loaded so far whose caller is reachable from the
\* root is persisted, and each of its rows has the caller's least distance
\* from the root as depth.
C4_BfsDepth ==
    (pc >= 1 /\ RootIsOne) =>
        \A p \in LoadedPairs :
            p[1] \in Reachable(LoadedPairs, TheRoot) =>
                /\ RowsOf(disk, p) # {}
                /\ \A r \in RowsOf(disk, p) : r.depth = Distance(LoadedPairs, TheRoot, p[1])

\* C5 (SpecReload): after a graph is loaded into the empty initialised
\* store, get_callees(root) returns, each once, exactly the functions that
\* the graph's edges give as callees of a function with that id or name.
C5_RoundTrip ==
    pc = 1 =>
        LET got == GetCallees(disk, Root)
            callers == {f.id : f \in {g \in Range(Loaded.functions) :
                                         g.id = Root \/ g.name = Root}}
        IN /\ {got[i].id : i \in DOMAIN got}
                = {p[2] : p \in {q \in PairsOf(Loaded.edges) : q[1] \in callers}}
           /\ \A i, j \in DOMAIN got : got[i].id = got[j].id => i = j

\* A callsite or an edge of the document names a function id the document
\* does not define.
Dangling(d) ==
    LET ids == {d.functions[i].id : i \in DOMAIN d.functions}
    IN \/ \E i \in DOMAIN d.calls : d.calls[i].caller \notin ids \/ d.calls[i].callee \notin ids
       \/ \E i \in DOMAIN d.edges : d.edges[i].caller \notin ids \/ d.edges[i].callee \notin ids

\* C6 (SpecJson): load-json on a document with a dangling caller or callee
\* ends with a validation error and writes nothing: no row and no table.
C6_DanglingBlocksPersistence ==
    (pc = 1 /\ Dangling(plan[1].doc)) =>
        /\ last.outcome \notin {"returned", "raised"}
        /\ disk = FreshDb

\* C7 (SpecReload): a load whose root names no persisted function returns
\* without raising, with the graph's functions, callsites and edges
\* committed and every depth as it was.
C7_UnresolvedRoot ==
    (pc >= 1 /\ Matching(disk, Root) = {}) =>
        /\ last.outcome = "returned"
        /\ last.root_id = NULL
        /\ Range(Loaded.functions) \subseteq Range(disk.functions)
        /\ Range(Loaded.callsites) \subseteq Range(disk.callsites)
        /\ \A p \in PairsOf(Loaded.edges) : RowsOf(disk, p) # {}
        /\ \A r \in Range(Before.edges) : r \in Range(disk.edges)

\* C8 (SpecReload): when the root string is the id of one persisted
\* function and the name of another, the depth computation starts from the
\* function with that id.
C8_RootIdPriority ==
    (/\ pc >= 1
     /\ \E f, g \in Range(disk.functions) : f.id = Root /\ g.id # Root /\ g.name = Root)
        => last.root_id = Root

\* C9 (SpecReload): after load(G1, R) and then load(G2, R) with G1 part of
\* G2 and R naming one function, every edge of G2 whose caller is reachable
\* from the root is persisted with the caller's least distance in G2.
C9_DepthOverWholeStore ==
    (/\ pc = 2
     /\ plan[1].root = plan[2].root
     /\ SubGraph(plan[1].graph, plan[2].graph)
     /\ RootIsOne) =>
        LET E == PairsOf(plan[2].graph.edges)
        IN \A p \in E :
              p[1] \in Reachable(E, TheRoot) =>
                  /\ RowsOf(disk, p) # {}
                  /\ \A r \in RowsOf(disk, p) : r.depth = Distance(E, TheRoot, p[1])

\* C10 (SpecReload): after the first load, with a root that names one
\* function, every edge of the graph whose caller has no path from the root
\* is persisted with no depth, and depth_summary counts only edges that have
\* a depth.
C10_UnreachableNoDepth ==
    (pc = 1 /\ RootIsOne) =>
        LET E == PairsOf(Loaded.edges)
            summary == DepthSummary(disk)
        IN /\ \A p \in E :
                 p[1] \notin Reachable(E, TheRoot) =>
                     /\ RowsOf(disk, p) # {}
                     /\ \A r \in RowsOf(disk, p) : r.depth = NoDepth
           /\ \A i \in DOMAIN summary :
                 summary[i].edge_count
                    = Cardinality({r \in Range(disk.edges) : r.depth = summary[i].depth})

\* C11 (SpecReload): after a valid graph is loaded into the empty
\* initialised store with a root that names one function, depth_summary
\* returns, in ascending depth, one row for each distance d at which a
\* reachable function has an outgoing edge, with function_count the number
\* of such callers at distance d and edge_count the number of edges of the
\* graph that leave them.
C11_DepthSummaryEndToEnd ==
    (pc = 1 /\ RootIsOne) =>
        LET edges == Loaded.edges
            E == PairsOf(edges)
            callers == {p[1] : p \in E} \cap Reachable(E, TheRoot)
            At(d) == {c \in callers : Distance(E, TheRoot, c) = d}
            summary == DepthSummary(disk)
        IN /\ {summary[i].depth : i \in DOMAIN summary}
                = {Distance(E, TheRoot, c) : c \in callers}
           /\ \A i, j \in DOMAIN summary : i < j => summary[i].depth < summary[j].depth
           /\ \A i \in DOMAIN summary :
                 /\ summary[i].function_count = Cardinality(At(summary[i].depth))
                 /\ summary[i].edge_count
                      = Cardinality({k \in DOMAIN edges : edges[k].caller \in At(summary[i].depth)})

\* In SpecValidate: the graph validated, and the ids of its lists.
Validated == plan[1].graph
IdsOf(list) == {list[i].id : i \in DOMAIN list}
\* The ids that occur more than once in a list.
Repeated(list) == {list[i].id : i \in {k \in DOMAIN list : \E j \in DOMAIN list : j # k /\ list[j].id = list[k].id}}
\* The dangling references of the callsites and of the edges, as
\* <<position, field>>; a callsite_id counts as set when it is neither None
\* nor the empty string.
DanglingCallRefs(g) ==
    {<<i, "caller">> : i \in {k \in DOMAIN g.callsites : g.callsites[k].caller \notin IdsOf(g.functions)}}
    \cup {<<i, "callee">> : i \in {k \in DOMAIN g.callsites : g.callsites[k].callee \notin IdsOf(g.functions)}}
DanglingEdgeRefs(g) ==
    {<<i, "caller">> : i \in {k \in DOMAIN g.edges : g.edges[k].caller \notin IdsOf(g.functions)}}
    \cup {<<i, "callee">> : i \in {k \in DOMAIN g.edges : g.edges[k].callee \notin IdsOf(g.functions)}}
    \cup {<<i, "callsite">> : i \in {k \in DOMAIN g.edges :
                                      /\ g.edges[k].callsite_id \notin {NULL, ""}
                                      /\ g.edges[k].callsite_id \notin IdsOf(g.callsites)}}
\* The five invariants of a call graph.
FiveInvariants(g) ==
    /\ g.functions # <<>>
    /\ Repeated(g.functions) = {}
    /\ Repeated(g.callsites) = {}
    /\ DanglingCallRefs(g) = {}
    /\ DanglingEdgeRefs(g) = {}

\* What the raised error lists: duplicate ids, or reference violations.
DuplicatesCarried ==
    IF last.error \in {"duplicate_functions", "duplicate_callsites"}
    THEN Range(last.items) ELSE {}
ViolationsCarried ==
    IF last.error \in {"invalid_callsite_refs", "invalid_edge_refs"}
    THEN Range(last.items) ELSE {}

C14_DuplicateFunctionIds ==
    (pc = 1 /\ Repeated(Validated.functions) # {}) =>
        /\ last.outcome = "raised"
        /\ last.error = "duplicate_functions"
        /\ Range(last.items) = Repeated(Validated.functions)

\* An id that occurs at the first and the third place, not next to itself,
\* was reported.
C14_Witness ==
    /\ pc = 1
    /\ last.outcome = "raised"
    /\ Len(Validated.functions) = 3
    /\ Validated.functions[1].id = Validated.functions[3].id
    /\ Validated.functions[1].id # Validated.functions[2].id

\* C15 (SpecValidate): for a graph whose functions pass and that has both a
\* repeated callsite id and a callsite with a dangling caller or callee, the
\* one failure raised carries the repeated callsite ids and the dangling
\* references together.
C15_CallsiteFindingsTogether ==
    (/\ pc = 1
     /\ Validated.functions # <<>>
     /\ Repeated(Validated.functions) = {}
     /\ Repeated(Validated.callsites) # {}
     /\ DanglingCallRefs(Validated) # {}) =>
        /\ last.outcome = "raised"
        /\ Repeated(Validated.callsites) \subseteq DuplicatesCarried
        /\ \A r \in DanglingCallRefs(Validated) :
              <<Validated.callsites[r[1]].id, r[2], Validated.callsites[r[1]][r[2]]>>
                  \in ViolationsCarried

RowsWithId(rows, id) == {i \in DOMAIN rows : rows[i].id = id}

\* C17 (SpecReload): after each load, every function and every callsite of
\* the loaded graph has exactly one row, equal column for column to the
\* loaded record, and no id has more than one row in either table.
C17_UpsertOverwrites ==
    pc >= 1 =>
        /\ \A f \in Range(Loaded.functions) :
              /\ Cardinality(RowsWithId(disk.functions, f.id)) = 1
              /\ \A i \in RowsWithId(disk.functions, f.id) : disk.functions[i] = f
        /\ \A c \in Range(Loaded.callsites) :
              /\ Cardinality(RowsWithId(disk.callsites, c.id)) = 1
              /\ \A i \in RowsWithId(disk.callsites, c.id) : disk.callsites[i] = c
        /\ \A i, j \in DOMAIN disk.functions :
              disk.functions[i].id = disk.functions[j].id => i = j
        /\ \A i, j \in DOMAIN disk.callsites :
              disk.callsites[i].id = disk.callsites[j].id => i = j

\* The second load brought a function and a callsite whose ids the first
\* load had persisted with other values.
C17_Witness ==
    /\ pc = 2
    /\ \E f \in Range(plan[1].graph.functions), g \in Range(plan[2].graph.functions) :
          f.id = g.id /\ f.name # g.name
    /\ \E c \in Range(plan[1].graph.callsites), d \in Range(plan[2].graph.callsites) :
          c.id = d.id /\ c.caller # d.caller

\* The last gateway call of the last operation.
LastCall == last.log[Len(last.log)]
\* The gateway calls of an operation up to its close.
BeforeClose == SubSeq(last.log, 1, Len(last.log) - 1)

\* C18 (Spec): every load_callgraph ends with a commit when it returns and
\* with a rollback when it raises, and leaves no uncommitted write on the
\* connection; every load-json that opened the store ends with exactly one
\* close, made after the commit or rollback that ends its load, also when
\* the load raised.
C18_ReleaseOnEveryPath ==
    /\ last.op = "load_callgraph" =>
          /\ last.log # <<>>
          /\ LastCall = (IF last.outcome = "returned" THEN "commit" ELSE "rollback")
          /\ conn = disk
    /\ (last.op = "load_json" /\ last.log # <<>>) =>
          /\ last.log[1] = "connect"
          /\ LastCall = "close"
          /\ \A i \in DOMAIN BeforeClose : BeforeClose[i] # "close"
          /\ BeforeClose[Len(BeforeClose)]
                = (IF last.outcome = "returned" THEN "commit" ELSE "rollback")
          /\ conn = disk

\* A load-json whose load raised has closed the connection.
C18_Witness ==
    /\ last.op = "load_json"
    /\ last.outcome = "raised"
    /\ LastCall = "close"

\* C12 (SpecQuery): when the storage engine raised during a read of the
\* query layer, the read does not return: the failure reaches the caller.
C12_FaultsNotHidden ==
    (pc = 1 /\ last.failed) => last.outcome = "raised"

\* In SpecQuery: the ids of a result list, whether it is in name order, and
\* the functions that call, or are called by, the functions a string names.
ResultIds(rows) == {rows[i].id : i \in DOMAIN rows}
InNameOrder(rows) ==
    \A i, j \in DOMAIN rows : i < j => Rank(rows[i].name) <= Rank(rows[j].name)
CalleesOf(db, ids) ==
    {f \in Range(db.functions) : \E e \in Range(db.edges) : e.caller \in ids /\ e.callee = f.id}
CallersOf(db, ids) ==
    {f \in Range(db.functions) : \E e \in Range(db.edges) : e.callee \in ids /\ e.caller = f.id}
Named(db, str) == {f.id : f \in Matching(db, str)}

\* C19 (SpecQuery): get_callees(x) returns exactly the persisted functions
\* that a persisted edge gives as callee of a function with id or name x,
\* and get_callers(x) those that call such a function: the union over all
\* the functions x names, each function once, in name order.
C19_NeighborsByIdOrName ==
    /\ (pc = 1 /\ last.op = "get_callees") =>
          /\ Range(last.result) = CalleesOf(disk, Named(disk, last.arg))
          /\ \A i, j \in DOMAIN last.result : last.result[i].id = last.result[j].id => i = j
          /\ InNameOrder(last.result)
    /\ (pc = 1 /\ last.op = "get_callers") =>
          /\ Range(last.result) = CallersOf(disk, Named(disk, last.arg))
          /\ \A i, j \in DOMAIN last.result : last.result[i].id = last.result[j].id => i = j
          /\ InNameOrder(last.result)

\* get_callers was asked for a name two functions carry, and returned the
\* callers of both, which neither function has alone.
C19_Witness ==
    /\ pc = 1
    /\ last.op = "get_callers"
    /\ Cardinality(Named(disk, last.arg)) = 2
    /\ \A n \in Named(disk, last.arg) :
          CallersOf(disk, {n}) # CallersOf(disk, Named(disk, last.arg))
    /\ Len(last.result) = 2

\* C20 (SpecQuery): function_detail(x) returns None exactly when x names no
\* persisted function; otherwise it returns the record of a function x
\* names with the callers of that function, its callees, and the callsites
\* where it is the caller in file-then-line order.
C20_FunctionDetail ==
    (pc = 1 /\ last.op = "function_detail" /\ ~last.failed) =>
        /\ last.result.none <=> Matching(disk, last.arg) = {}
        /\ ~last.result.none =>
              LET f == last.result.function
                  sites == last.result.callsites
              IN /\ f \in Matching(disk, last.arg)
                 /\ Range(last.result.callers) = CallersOf(disk, {f.id})
                 /\ Range(last.result.callees) = CalleesOf(disk, {f.id})
                 /\ {sites[i].id : i \in DOMAIN sites}
                       = {c.id : c \in {d \in Range(disk.callsites) : d.caller = f.id}}
                 /\ \A i, j \in DOMAIN sites :
                       i < j => \/ Rank(sites[i].file) < Rank(sites[j].file)
                                \/ /\ sites[i].file = sites[j].file
                                   /\ sites[i].line <= sites[j].line

\* In SpecIngest: the document given to from_dict and the call list it
\* carries under its top-level key.
Data == plan[1].data
CallListOf(data) ==
    IF "callsites" \in data.keys THEN data.callsites
    ELSE IF "callSites" \in data.keys THEN data.callSites
    ELSE data.calls
\* An object with caller_id and callee_id respelled caller and callee.
Respelled(obj) ==
    [obj EXCEPT !.keys = (@ \ {"caller_id", "callee_id"})
                            \cup (IF {"caller", "caller_id"} \cap @ # {} THEN {"caller"} ELSE {})
                            \cup (IF {"callee", "callee_id"} \cap @ # {} THEN {"callee"} ELSE {}),
                !.caller = Get(obj, "caller", Get(obj, "caller_id", NULL)),
                !.callee = Get(obj, "callee", Get(obj, "callee_id", NULL))]
\* The same document with its call list under callsites and every field
\* spelled caller and callee.
Canonical(data) ==
    LET calls == CallListOf(data)
    IN [Document(data.functions, "callsites",
                 [i \in DOMAIN calls |-> Respelled(calls[i])],
                 [i \in DOMAIN data.edges |-> Respelled(data.edges[i])],
                 TRUE)
        EXCEPT !.keys = @ \ (IF "edges" \in data.keys THEN {} ELSE {"edges"})]
\* Two results of from_dict are the same: both raise, or both return the
\* same graph.
Same(r, q) == r.raised = q.raised /\ (~r.raised => r.value = q.value)

\* C21 (SpecIngest): from_dict gives the same result, the same CallGraph or
\* a field error alike, for a document as for the same document with its
\* call list under the key callsites and its fields spelled caller and
\* callee: the keys callsites, callSites and calls, and the spellings
\* caller/caller_id and callee/callee_id, are interchangeable.
C21_IngestionFormat ==
    pc = 1 => Same(last.result, CallGraphFromDict(Canonical(Data)))

\* The graph from_dict returned, and the edge list of the document (none
\* when the key is missing).
Made == last.result.value
ListedEdges == Get(Data, "edges", <<>>)
Spelled(obj, field, alias) == IF field \in obj.keys THEN obj[field] ELSE obj[alias]

\* C22 (SpecIngest): when from_dict returns a graph for a document without
\* an edge list (or with an empty one), the graph has one edge per callsite
\* of the graph, in callsite order, with that callsite's caller and callee
\* and callsite_id equal to its id; when the document lists edges, the graph
\* has exactly the listed edges, in order, and none derived.
C22_EdgeDerivation ==
    (pc = 1 /\ last.outcome = "returned") =>
        IF ListedEdges = <<>>
        THEN /\ Len(Made.edges) = Len(Made.callsites)
             /\ \A i \in DOMAIN Made.callsites :
                   /\ Made.edges[i].caller = Made.callsites[i].caller
                   /\ Made.edges[i].callee = Made.callsites[i].callee
                   /\ Made.edges[i].callsite_id = Made.callsites[i].id
        ELSE /\ Len(Made.edges) = Len(ListedEdges)
             /\ \A i \in DOMAIN ListedEdges :
                   /\ Made.edges[i].caller = Strip(Spelled(ListedEdges[i], "caller", "caller_id"))
                   /\ Made.edges[i].callee = Strip(Spelled(ListedEdges[i], "callee", "callee_id"))
                   /\ Made.edges[i].callsite_id = Get(ListedEdges[i], "callsite_id", NULL)

\* A document without an edge list whose two callsites share caller and
\* callee gave two edges.
C22_Witness ==
    /\ pc = 1
    /\ last.outcome = "returned"
    /\ "edges" \notin Data.keys
    /\ Len(Made.callsites) = 2
    /\ Made.callsites[1].caller = Made.callsites[2].caller
    /\ Made.callsites[1].callee = Made.callsites[2].callee
    /\ Len(Made.edges) = 2

\* The call objects from_dict constructs CallSites from.
ConstructedCalls == Get(Data, "callsites", Get(Data, "callSites", <<>>))
\* A field is there with an empty or whitespace-only string; a field is
\* there with a string that has a letter.
Blank(obj, field) == field \in obj.keys /\ obj[field] \in {"", " "}
Filled(obj, field) == field \in obj.keys /\ obj[field] \notin {NULL, "", " "}
BlankEnd(obj, field, alias) ==
    IF field \in obj.keys THEN Blank(obj, field) ELSE Blank(obj, alias)
FilledEnd(obj, field, alias) ==
    IF field \in obj.keys THEN Filled(obj, field) ELSE Filled(obj, alias)
\* Some object the document has a record constructed from breaks a field
\* rule; every such object is well-formed.
SomeFieldBroken ==
    \/ \E f \in Range(Data.functions) : Blank(f, "id") \/ Blank(f, "name")
    \/ \E c \in Range(ConstructedCalls) :
          \/ Blank(c, "id")
          \/ BlankEnd(c, "caller", "caller_id") \/ BlankEnd(c, "callee", "callee_id")
          \/ (c.line.given /\ c.line.value < 1)
    \/ \E e \in Range(ListedEdges) :
          BlankEnd(e, "caller", "caller_id") \/ BlankEnd(e, "callee", "callee_id")
AllFieldsFine ==
    /\ \A f \in Range(Data.functions) : Filled(f, "id") /\ Filled(f, "name")
    /\ \A c \in Range(ConstructedCalls) :
          /\ Filled(c, "id")
          /\ FilledEnd(c, "caller", "caller_id") /\ FilledEnd(c, "callee", "callee_id")
          /\ (~c.line.given \/ c.line.value >= 1)
    /\ \A e \in Range(ListedEdges) :
          FilledEnd(e, "caller", "caller_id") /\ FilledEnd(e, "callee", "callee_id")

\* C23 (SpecIngest): when a Function is constructed from an empty or
\* whitespace-only id or name, a CallSite from such an id, caller or callee
\* or from a line below 1, or an Edge from such a caller or callee, from_dict
\* raises a field error and returns no graph; when every record has its
\* required fields filled and each line is None or at least 1, from_dict
\* returns a graph.
C23_FieldValidation ==
    pc = 1 =>
        /\ SomeFieldBroken => (last.outcome = "raised" /\ last.result.raised)
        /\ AllFieldsFine => (last.outcome = "returned" /\ ~last.result.raised)

\* A document whose only broken field is a whitespace-only string was
\* refused.
C23_Witness ==
    /\ pc = 1
    /\ last.outcome = "raised"
    /\ \E f \in Range(Data.functions) : f.name = " "
    /\ \A c \in Range(ConstructedCalls) :
          /\ Filled(c, "id")
          /\ FilledEnd(c, "caller", "caller_id") /\ FilledEnd(c, "callee", "callee_id")
          /\ ~c.line.given
    /\ ListedEdges = <<>>

NamesOne(i) == Cardinality(Matching(disk, plan[i].root)) = 1
RootOf(i) == (CHOOSE f \in Matching(disk, plan[i].root) : TRUE).id

\* C25 (SpecReload): after load(G, R1) and then load(G, R2), each root
\* naming one function, every edge of G whose caller is reachable from R2 is
\* persisted with the caller's distance from R2, every edge whose caller is
\* reachable from R1 but not from R2 is persisted with the caller's distance
\* from R1, and no row that had a depth after the first load is without one
\* after the second.
C25_StaleDepths ==
    (/\ pc = 2
     /\ plan[1].graph = plan[2].graph
     /\ NamesOne(1) /\ NamesOne(2)) =>
        LET E == PairsOf(Loaded.edges)
            from1 == Reachable(E, RootOf(1))
            from2 == Reachable(E, RootOf(2))
        IN /\ \A p \in E :
                 /\ p[1] \in from2 =>
                       /\ RowsOf(disk, p) # {}
                       /\ \A r \in RowsOf(disk, p) : r.depth = Distance(E, RootOf(2), p[1])
                 /\ p[1] \in from1 \ from2 =>
                       /\ RowsOf(disk, p) # {}
                       /\ \A r \in RowsOf(disk, p) : r.depth = Distance(E, RootOf(1), p[1])
           /\ \A r \in Range(trail[1].edges) :
                 r.depth # NoDepth =>
                    \E q \in Range(disk.edges) : q.id = r.id /\ q.depth # NoDepth

\* C26 (SpecReload): a load of a validated graph into the initialised store,
\* without a storage fault and with a root that names a persisted function,
\* returns without raising: its last gateway call is the commit and it makes
\* no rollback.
C26_ValidLoadSucceeds ==
    (pc >= 1 /\ Matching(disk, Root) # {}) =>
        /\ last.outcome = "returned"
        /\ last.log # <<>>
        /\ LastCall = "commit"
        /\ \A i \in DOMAIN last.log : last.log[i] # "rollback"

\* The ids of the persisted functions and callsites.
PersistedFunctionIds == {f.id : f \in Range(disk.functions)}
PersistedCallsiteIds == {c.id : c \in Range(disk.callsites)}

\* C27 (Spec): after any sequence of loads of validated graphs, with or
\* without storage faults, the caller and the callee of every persisted
\* callsite and of every persisted edge are ids of persisted functions, and
\* every edge callsite_id that is not NULL is the id of a persisted callsite.
C27_ReferentialIntegrity ==
    /\ \A c \in Range(disk.callsites) :
          c.caller \in PersistedFunctionIds /\ c.callee \in PersistedFunctionIds
    /\ \A e \in Range(disk.edges) :
          /\ e.caller \in PersistedFunctionIds /\ e.callee \in PersistedFunctionIds
          /\ e.callsite_id # NULL => e.callsite_id \in PersistedCallsiteIds

\* Loads have persisted two callsites, one in each direction between two
\* persisted functions.
C27_Witness ==
    /\ last.op = "load_callgraph"
    /\ \E c, d \in Range(disk.callsites) :
          /\ c.caller = d.callee /\ c.callee = d.caller
          /\ c.caller # c.callee
          /\ {c.caller, c.callee} \subseteq PersistedFunctionIds

\* C28 (SpecBfsLive): the while loop of _compute_depths ends, with the queue
\* empty, for every edge set (cycles, self-loops and repeated rows
\* included); no function id is appended to the queue twice, and a depth
\* once assigned stays as it is.
C28_BfsTerminates ==
    /\ <>(last.queue = <<>>)
    /\ [](\A i, j \in DOMAIN trail : trail[i] = trail[j] => i = j)
    /\ [][\A id \in DOMAIN last.depths :
             id \in DOMAIN last'.depths /\ last'.depths[id] = last.depths[id]]_vars

\* The loop ended after two passes on rows that form a cycle between two
\* functions, one of the rows repeated.
C28_Witness ==
    /\ last.op = "compute_depths"
    /\ last.queue = <<>>
    /\ pc = 2
    /\ \E i, j \in DOMAIN disk.edges :
          /\ i # j
          /\ disk.edges[i].caller = disk.edges[j].caller
          /\ disk.edges[i].callee = disk.edges[j].callee
    /\ \E i, j \in DOMAIN disk.edges :
          /\ disk.edges[i].caller # disk.edges[i].callee
          /\ disk.edges[i].caller = disk.edges[j].callee
          /\ disk.edges[i].callee = disk.edges[j].caller

\* The orders in which the store may return a list of rows.
Orderings(rows) ==
    {[i \in DOMAIN rows |-> rows[f[i]]] :
        f \in {g \in [DOMAIN rows -> DOMAIN rows] :
                  \A i, j \in DOMAIN rows : g[i] = g[j] => i = j}}
\* The (depth, caller, callee) updates _compute_depths makes when the rows
\* come in an order, and the ones the store shows were made.
UpdatesFor(pairs, root_id) ==
    LET keys == AdjacencyKeys(pairs, Len(pairs))
    IN Range(DepthUpdates(pairs, keys, Bfs(pairs, (root_id :> 0), <<root_id>>), Len(keys)))
UpdatesMade(db) ==
    {<<r.depth, r.caller, r.callee>> : r \in {q \in Range(db.edges) : q.depth # NoDepth}}

\* C29 (SpecBfs): once _compute_depths has written the depths for a set of
\* edge rows and a resolved root, the depth on every row is the one written
\* for every order in which the store could have returned the rows, and
\* every row whose caller is reachable from the root has a depth, its callee
\* having been assigned one.
C29_DepthDeterminism ==
    (last.op = "compute_depths" /\ last.phase = "done") =>
        LET pairs == SelectEdges(disk)
            root_id == plan[1].root_id
        IN /\ \A order \in Orderings(pairs) :
                 UpdatesFor(order, root_id) = UpdatesMade(disk)
           /\ \A r \in Range(disk.edges) :
                 r.caller \in Reachable(Range(pairs), root_id) =>
                    /\ r.depth # NoDepth
                    /\ r.callee \in DOMAIN last.depths

\* Depths 0 and 1 were written on rows where one caller has two callees, so
\* that the order of the rows decides the order of discovery.
C29_Witness ==
    /\ last.op = "compute_depths"
    /\ last.phase = "done"
    /\ \E r, q \in Range(disk.edges) :
          r.caller = q.caller /\ r.callee # q.callee /\ r.depth = 0 /\ q.depth = 0
    /\ \E r \in Range(disk.edges) : r.depth = 1

\* The function ids, callsite ids and edge pairs a store holds.
FunctionIdsIn(db) == {f.id : f \in Range(db.functions)}
CallsiteIdsIn(db) == {c.id : c \in Range(db.callsites)}
EdgePairsIn(db) == {<<e.caller, e.callee>> : e \in Range(db.edges)}

\* C30 (SpecReload): every function id, callsite id and edge pair persisted
\* before a load is persisted after it, whether the load returned or raised;
\* and after a second load the functions, callsites and edges of the first
\* graph are all in the store, also those the second graph lacks, and the
\* edges of the first graph whose caller is reachable from the second root
\* over the edges of both graphs carry the caller's distance as depth.
C30_LoadNeverDeletes ==
    /\ pc >= 1 =>
          /\ FunctionIdsIn(Before) \subseteq FunctionIdsIn(disk)
          /\ CallsiteIdsIn(Before) \subseteq CallsiteIdsIn(disk)
          /\ EdgePairsIn(Before) \subseteq EdgePairsIn(disk)
    /\ pc = 2 =>
          /\ IdsOf(plan[1].graph.functions) \subseteq FunctionIdsIn(disk)
          /\ IdsOf(plan[1].graph.callsites) \subseteq CallsiteIdsIn(disk)
          /\ PairsOf(plan[1].graph.edges) \subseteq EdgePairsIn(disk)
          /\ RootIsOne =>
                \A p \in PairsOf(plan[1].graph.edges) :
                    p[1] \in Reachable(LoadedPairs, TheRoot) =>
                        \A r \in RowsOf(disk, p) :
                            r.depth = Distance(LoadedPairs, TheRoot, p[1])

====
